---- MODULE Spec2Model ----
(***************************************************************************)
(* Model of the Discogs reconciliation service (src/discogs.py).           *)
(*                                                                         *)
(* The outbound-request governor rate_limited_request is modelled          *)
(* step by step over a discrete wall clock; every inbound request runs on  *)
(* its own thread (Flask's development server is threaded) and the three   *)
(* module-level globals last_request_time, rate_limit_remaining and        *)
(* rate_limit_reset_time are shared without a lock, as in the source.      *)
(* Time 0 is the epoch; the process starts at least one second after it.   *)
(***************************************************************************)
EXTENDS Integers, Sequences, FiniteSets, TLC

(***************************************************************************)
(* Bounds of the model.                                                    *)
(***************************************************************************)
\* clock resolution: ticks of the wall clock per second
TicksPerSec == 2
\* the clock stops advancing at this tick
MaxTime == 6
\* largest number carried by a rate header (X-Discogs-Ratelimit-*, Retry-After)
MaxHdr == 1
\* largest number of 429 answers the upstream gives to one call
MaxRetries == 2
\* calls each thread makes when the threads run concurrently
MaxConcCalls == 1
\* inbound requests the handlers serve in one run
MaxRequests == 1

\* previews served by one thread
MaxPreviews == 2

(***************************************************************************)
(* Program constants.                                                      *)
(***************************************************************************)
\* initial value of rate_limit_remaining / rate_limit_reset_time, default of
\* the three headers.get(..., 60) calls, value of the optimistic reset
DefaultLimit == 60

Threads == {1, 2}

(***************************************************************************)
(* HTTP headers and Python's int().                                        *)
(* A header is absent or carries a text, a sequence of characters.         *)
(***************************************************************************)
DigitChars == <<"0", "1", "2", "3", "4", "5", "6", "7", "8", "9">>

IsDigit(c) == \E i \in 1..10 : DigitChars[i] = c

DigitVal(c) == (CHOOSE i \in 1..10 : DigitChars[i] = c) - 1

RECURSIVE DigitsVal(_)
DigitsVal(s) ==
    IF s = <<>> THEN 0
    ELSE 10 * DigitsVal(SubSeq(s, 1, Len(s) - 1)) + DigitVal(s[Len(s)])

AllDigits(s) == Len(s) > 0 /\ \A i \in 1..Len(s) : IsDigit(s[i])

\* int(text): an optional sign followed by decimal digits, ValueError otherwise
PyIntOk(s) ==
    /\ Len(s) > 0
    /\ IF s[1] \in {"-", "+"} THEN AllDigits(Tail(s)) ELSE AllDigits(s)

PyIntVal(s) ==
    IF s[1] = "-" THEN 0 - DigitsVal(Tail(s))
    ELSE IF s[1] = "+" THEN DigitsVal(Tail(s))
    ELSE DigitsVal(s)

Absent == [present |-> FALSE, text |-> <<>>]

Header(s) == [present |-> TRUE, text |-> s]

\* int(response.headers.get(name, 60)): ok = FALSE stands for ValueError
HeaderInt(h) ==
    IF ~h.present THEN [ok |-> TRUE, val |-> DefaultLimit]
    ELSE IF PyIntOk(h.text) THEN [ok |-> TRUE, val |-> PyIntVal(h.text)]
    ELSE [ok |-> FALSE, val |-> 0]

\* the header values the upstream is modelled to send
HeaderValues ==
    {Absent, Header(<<"x">>), Header(<<"-", "1">>)}
        \cup {Header(<<DigitChars[n + 1]>>) : n \in 0..MaxHdr}


(***************************************************************************)
(* HTTP responses of the upstream.                                         *)
(***************************************************************************)
\* 200, 429 and one representative each of the other client/server errors
StatusCodes == {200, 429, 404, 500}

NoBody == [kind |-> "none", items |-> <<>>]

NoResponse ==
    [status |-> 0, remaining |-> Absent, reset |-> Absent,
     retry_after |-> Absent, body |-> NoBody]

\* a response carries the rate headers that its status code lets the gate read
ResponsesWith(bodies) ==
    {[status |-> 200, remaining |-> h1, reset |-> h2,
      retry_after |-> Absent, body |-> b] :
        h1 \in HeaderValues, h2 \in HeaderValues, b \in bodies}
    \cup {[status |-> 429, remaining |-> Absent, reset |-> Absent,
           retry_after |-> h, body |-> b] :
        h \in HeaderValues, b \in bodies}
    \cup {[status |-> c, remaining |-> Absent, reset |-> Absent,
           retry_after |-> Absent, body |-> b] :
        c \in StatusCodes \ {200, 429}, b \in bodies}

(***************************************************************************)
(* Data of the reconciliation service.                                     *)
(***************************************************************************)
\* a type id is the sequence of its "/"-separated parts, as str.split('/')
\* gives them: "/discogs/artist" is <<"", "discogs", "artist">>
TypeId(slug) == <<"", "discogs", slug>>

NoType == <<>>

UnknownType == <<"", "unknown", "type">>

\* metadata["defaultTypes"], src/discogs.py:40-55
DefaultTypes ==
    << [id |-> TypeId("artist"), name |-> "Artist"],
       [id |-> TypeId("release"), name |-> "Release"],
       [id |-> TypeId("master"), name |-> "Master"],
       [id |-> TypeId("label"), name |-> "Label"],
       [id |-> TypeId("track"), name |-> "Track"],
       [id |-> TypeId("genre"), name |-> "Genre"],
       [id |-> TypeId("style"), name |-> "Style"],
       [id |-> TypeId("country"), name |-> "Country"],
       [id |-> TypeId("year"), name |-> "Year"],
       [id |-> TypeId("format"), name |-> "Format"],
       [id |-> TypeId("catno"), name |-> "Catalog Number"],
       [id |-> TypeId("barcode"), name |-> "Barcode"],
       [id |-> TypeId("submitter"), name |-> "Submitter"],
       [id |-> TypeId("contributor"), name |-> "Contributor"] >>

NoMeta == [id |-> NoType, name |-> ""]

\* line 120: next((item for item in defaultTypes if item['id'] == t), None)
QueryTypeMeta(t) ==
    IF \E i \in 1..Len(DefaultTypes) : DefaultTypes[i].id = t
    THEN DefaultTypes[CHOOSE i \in 1..Len(DefaultTypes) :
                        /\ DefaultTypes[i].id = t
                        /\ \A j \in 1..(i - 1) : DefaultTypes[j].id # t]
    ELSE NoMeta

\* line 121: query_type_meta["id"].split('/')[-1] if query_type_meta else 'artist'
EntityType(meta) == IF meta # NoMeta THEN meta.id[Len(meta.id)] ELSE "artist"

\* line 70: make_uri
MakeUri(entity_type, discogs_id) ==
    <<"https://www.discogs.com", entity_type, discogs_id>>

\* str.lower() on the texts of the model
Lower(t) ==
    CASE t = "Nirvana" -> "nirvana"
      [] t = "Nevermind" -> "nevermind"
      [] OTHER -> t

\* a text parameter: absent, or a str value; NoText is Python's None
NoText == [present |-> FALSE, text |-> ""]

Text(t) == [present |-> TRUE, text |-> t]

\* the scores fuzz.token_sort_ratio gives (fuzzywuzzy is a library outside
\* the repository)
ScoreValues == {10, 40, 70, 95}

\* an item of the upstream "results" array: a JSON object (a member that is
\* missing has the text ""), or a JSON value that is not an object; ratio
\* is the value of fuzz.token_sort_ratio(query, name) for the item's name
ItemIds == <<"1", "2", "3", "4", "5", "6", "7", "8">>

NamedItem(i, r) ==
    [shape |-> "object", name |-> "Nirvana", title |-> "Nevermind",
     id |-> ItemIds[i], catno |-> "", ratio |-> r]

NamelessItem(i) ==
    [shape |-> "object", name |-> "", title |-> "", id |-> ItemIds[i],
     catno |-> "DGC-24425", ratio |-> 0]

ScalarItem ==
    [shape |-> "scalar", name |-> "", title |-> "", id |-> "", catno |-> "",
     ratio |-> 0]

\* most items of a "results" array sent to a handler
MaxItems == 1

\* most items of a "results" array when the ranking is examined
MaxRank == 5

\* the values the i-th item of a "results" array may have
ItemsAt(i, scores) ==
    {NamedItem(i, r) : r \in scores} \cup {NamelessItem(i), ScalarItem}

\* the "results" arrays of exactly k items
RECURSIVE ItemListsOfLen(_, _)
ItemListsOfLen(k, scores) ==
    IF k = 0 THEN {<<>>}
    ELSE {Append(l, x) : l \in ItemListsOfLen(k - 1, scores),
                         x \in ItemsAt(k, scores)}

\* the "results" arrays of up to n items, the named ones scored from scores
ItemLists(n, scores) == UNION {ItemListsOfLen(k, scores) : k \in 0..n}

\* the bodies of the responses to a search: not JSON, a JSON array, a JSON
\* object without "results", a JSON object with a "results" array
SearchBodies ==
    {[kind |-> k, items |-> <<>>] : k \in {"undecodable", "array", "object"}}
        \cup {[kind |-> "results", items |-> l] : l \in ItemLists(MaxItems, {95})}

\* the "results" arrays of exactly k named items
RECURSIVE NamedListsOfLen(_)
NamedListsOfLen(k) ==
    IF k = 0 THEN {<<>>}
    ELSE {Append(l, NamedItem(k, r)) : l \in NamedListsOfLen(k - 1),
                                       r \in ScoreValues}

\* the bodies whose "results" array holds named items only
RankBodies ==
    {[kind |-> "results", items |-> l] :
        l \in UNION {NamedListsOfLen(k) : k \in 0..MaxRank}}

\* the value of the parameter query: absent, "", a bare search string, or a
\* text that starts with "{": a JSON object with a "query" member, a JSON
\* object without one, or no JSON at all
NoParam == [present |-> FALSE, kind |-> "none", text |-> ""]

QueryParams ==
    {NoParam, [present |-> TRUE, kind |-> "empty", text |-> ""]}
        \cup {[present |-> TRUE, kind |-> k, text |-> "Nirvana"] :
                k \in {"str", "json_query"}}
        \cup {[present |-> TRUE, kind |-> k, text |-> ""] :
                k \in {"json_other", "json_bad"}}

\* query.startswith("{")
StartsWithBrace(q) == q.kind \in {"json_query", "json_other", "json_bad"}

\* Python's truth value of an optional str
Truthy(q) == q.present /\ q.kind # "empty"

\* most entries of a batch
MaxBatch == 2

BatchKeys == <<"q1", "q2", "q3", "q4">>

\* the value of one key of the batch: a JSON object with or without the
\* members "query" and "type" (NoType: no "type" member), or another JSON value
EntriesOf(k) ==
    {[key |-> k, shape |-> "object", has_query |-> TRUE, query |-> "Nirvana",
      type |-> t] : t \in {NoType, TypeId("artist"), TypeId("release"),
                           UnknownType}}
        \cup {[key |-> k, shape |-> "object", has_query |-> FALSE,
               query |-> "", type |-> TypeId("artist")],
              [key |-> k, shape |-> "scalar", has_query |-> FALSE,
               query |-> "", type |-> NoType]}

Batches ==
    UNION {{b \in [1..n -> UNION {EntriesOf(BatchKeys[i]) : i \in 1..n}] :
              \A i \in 1..n : b[i].key = BatchKeys[i]} : n \in 0..MaxBatch}

\* the value of the parameter queries: absent, "", a text that is not JSON,
\* a JSON value that is not an object, or a JSON object of entries
NoQueries == [present |-> FALSE, kind |-> "none", entries |-> <<>>]

QueriesParams ==
    {NoQueries}
        \cup {[present |-> TRUE, kind |-> k, entries |-> <<>>] :
                k \in {"empty", "json_bad", "json_array"}}
        \cup {[present |-> TRUE, kind |-> "json_object", entries |-> b] :
                b \in Batches}

NoRequest ==
    [form_query |-> NoParam, args_query |-> NoParam, args_type |-> NoType,
     form_queries |-> NoQueries, args_queries |-> NoQueries,
     callback |-> FALSE]

\* the requests to /reconcile: a batch as form parameter, a batch in the
\* query string, a single query, no parameter at all
ReconcileRequests ==
    {[NoRequest EXCEPT !.form_queries = b, !.form_query = q, !.callback = c] :
        b \in QueriesParams \ {NoQueries},
        q \in {r \in QueryParams : ~Truthy(r)},
        c \in BOOLEAN}
    \cup {[NoRequest EXCEPT !.args_queries = b] :
            b \in {r \in QueriesParams :
                     r.kind = "json_object" /\ Len(r.entries) = 1}}
    \cup {[NoRequest EXCEPT !.form_query = f, !.args_query = a,
                            !.args_type = t] :
            f \in QueryParams, a \in QueryParams,
            t \in {NoType, TypeId("release"), UnknownType}}

\* the members of the JSON object the upstream sends for one entity: each
\* is missing or well-shaped or ill-shaped (labels and artists: a list of
\* objects with a "name", of objects without one, or a value that is no
\* list of objects; genres and styles: a list of strings or another value)
DetailMembers ==
    [title : {"missing", "text"},
     year : {"missing", "number"},
     labels : {"missing", "empty", "named", "named_catno", "noname",
               "illshaped"},
     artists : {"missing", "named", "noname"},
     genres : {"missing", "list", "illshaped"},
     styles : {"missing", "list", "illshaped"}]

\* a record with every member, each well-shaped
CompleteDetail ==
    [title |-> "text", year |-> "number", labels |-> "named_catno",
     artists |-> "named", genres |-> "list", styles |-> "list"]

\* the detail records: the complete one, those that differ from it in one
\* member, and the one without any member
DetailRecords ==
    {d \in DetailMembers :
        \/ Cardinality({k \in DOMAIN d : d[k] # CompleteDetail[k]}) <= 1
        \/ \A k \in DOMAIN d : d[k] = "missing"}

\* the bodies of the responses to a preview: not JSON, a JSON array, a JSON
\* object
PreviewBodies ==
    {[kind |-> k, items |-> <<>>] : k \in {"undecodable", "array"}}
        \cup {[kind |-> "detail", items |-> <<d>>] : d \in DetailRecords}

NoSearch == [kind |-> "none", list |-> <<>>, exc |-> ""]

\* an HTTP response of a handler: results is the sequence of the
\* (key, result) pairs of its JSON body
NoHttp ==
    [status |-> 0, kind |-> "none", results |-> <<>>,
     mimetype |-> "", error |-> ""]

(***************************************************************************)
(* State.                                                                  *)
(***************************************************************************)
VARIABLES
    now,                    \* time.time(), in ticks since the epoch
    last_request_time,      \* global, src/discogs.py:31
    rate_limit_remaining,   \* global, src/discogs.py:32
    rate_limit_reset_time,  \* global, src/discogs.py:33
    calls_left,             \* calls each thread may still start (-1: any)
    upstream,               \* the answers the upstream gives in this run
    pc,                     \* position of each thread
    elapsed_time,           \* local of rate_limited_request
    wake,                   \* end of the thread's current time.sleep
    response,               \* local of rate_limited_request
    depth,                  \* nesting of the recursive retry calls
    result,                 \* what rate_limited_request handed to its caller
    handler,                \* the request handler the thread is running
    request,                \* flask.request of the handler
    mode,                   \* reconcile: single query or batch
    todo,                   \* reconcile: entries of queries still to serve
    results,                \* reconcile: local results
    key,                    \* reconcile: key of the entry being served
    query,                  \* search: parameter query
    query_type,             \* search: parameter query_type
    given_type,             \* the type the entry being served asked for
    out,                    \* search: local out
    search_out,             \* how the latest call of search ended
    http,                   \* the HTTP response of the handler
    \* history, read only by the properties
    last_sent,              \* the most recent outbound GET: [at, by]
    attempt_end,            \* when the most recent GET attempt ended
    entry,                  \* rate state seen on entering the gate
    nget,                   \* GETs sent by the thread's current call
    n429,                   \* 429 answers received by the current call
    last429                 \* the latest 429 of the thread's current call

svc_vars ==
    <<handler, request, mode, todo, results, key, query, query_type,
      given_type, out, search_out, http>>

env_vars == <<calls_left, upstream, svc_vars>>

gate_vars ==
    <<last_request_time, rate_limit_remaining, rate_limit_reset_time>>

hist_vars == <<last_sent, attempt_end, entry, nget, n429, last429>>

vars ==
    <<now, last_request_time, rate_limit_remaining, rate_limit_reset_time,
      calls_left, upstream, pc, elapsed_time, wake, response, depth, result,
      handler, request, mode, todo, results, key, query, query_type,
      given_type, out, search_out, http,
      last_sent, attempt_end, entry, nget, n429, last429>>

NoResult == [kind |-> "none", status |-> 0, exc |-> "", body |-> NoBody]

NoEntry == [at |-> 0 - 1, remaining |-> 0, reset |-> 0]

NoSend == [at |-> 0 - 1, by |-> 0]

No429 == [at |-> 0 - 1, retry_after |-> Absent]

InitWith(budget, answers) ==
    /\ now = TicksPerSec
    /\ last_request_time = 0
    /\ rate_limit_remaining = DefaultLimit
    /\ rate_limit_reset_time = DefaultLimit
    /\ calls_left = budget
    /\ upstream = answers
    /\ pc = [p \in Threads |-> "idle"]
    /\ elapsed_time = [p \in Threads |-> 0]
    /\ wake = [p \in Threads |-> 0]
    /\ response = [p \in Threads |-> NoResponse]
    /\ depth = [p \in Threads |-> 0]
    /\ result = [p \in Threads |-> NoResult]
    /\ handler = [p \in Threads |-> "none"]
    /\ request = [p \in Threads |-> NoRequest]
    /\ mode = [p \in Threads |-> "none"]
    /\ todo = [p \in Threads |-> <<>>]
    /\ results = [p \in Threads |-> <<>>]
    /\ key = [p \in Threads |-> ""]
    /\ query = [p \in Threads |-> NoText]
    /\ query_type = [p \in Threads |-> NoType]
    /\ given_type = [p \in Threads |-> NoType]
    /\ out = [p \in Threads |-> <<>>]
    /\ search_out = [p \in Threads |-> NoSearch]
    /\ http = [p \in Threads |-> NoHttp]
    /\ last_sent = NoSend
    /\ attempt_end = 0 - 1
    /\ entry = [p \in Threads |-> NoEntry]
    /\ nget = [p \in Threads |-> 0]
    /\ n429 = [p \in Threads |-> 0]
    /\ last429 = [p \in Threads |-> No429]

\* the wall clock advances
Tick ==
    /\ now < MaxTime
    /\ now' = now + 1
    /\ UNCHANGED <<gate_vars, env_vars, pc, elapsed_time, wake, response,
                   depth, result, hist_vars>>

(***************************************************************************)
(* rate_limited_request, src/discogs.py:84-113.                            *)
(***************************************************************************)
\* a sleep that returns at once
SleepUntil_NoSleep(t, secs) == t

\* time.sleep(secs) started at t ends no earlier than this
SleepUntil(t, secs) == t + secs * TicksPerSec

\* where rate_limited_request was called from: search (line 131), preview
\* (line 207), or a caller outside the handlers
ReturnPc(p) ==
    IF handler[p] = "reconcile" THEN "search_json"
    ELSE IF handler[p] = "preview" THEN "preview_json"
    ELSE "idle"

\* the call of thread p is over: its locals go out of scope
EndCall(p) ==
    /\ pc' = [pc EXCEPT ![p] = ReturnPc(p)]
    /\ response' = [response EXCEPT ![p] = NoResponse]
    /\ depth' = [depth EXCEPT ![p] = 0]
    /\ elapsed_time' = [elapsed_time EXCEPT ![p] = 0]
    /\ wake' = [wake EXCEPT ![p] = 0]
    /\ entry' = [entry EXCEPT ![p] = NoEntry]
    /\ last429' = [last429 EXCEPT ![p] = No429]

\* line 113: the frames of rate_limited_request unwind and hand r to the caller
GateReturn(p, r) ==
    /\ result' = [result EXCEPT ![p] =
                    [kind |-> "response", status |-> r.status, exc |-> "",
                     body |-> r.body]]
    /\ EndCall(p)

\* an exception leaves every frame of rate_limited_request
GateRaise(p, e) ==
    /\ result' = [result EXCEPT ![p] =
                    [kind |-> "exception", status |-> 0, exc |-> e,
                     body |-> NoBody]]
    /\ EndCall(p)

\* a caller invokes rate_limited_request(url, headers)
Call(p) ==
    /\ calls_left[p] # 0
    /\ pc[p] = "idle"
    /\ handler[p] = "none"
    /\ calls_left' = [calls_left EXCEPT ![p] = IF @ > 0 THEN @ - 1 ELSE @]
    /\ pc' = [pc EXCEPT ![p] = "enter"]
    /\ result' = [result EXCEPT ![p] = NoResult]
    /\ nget' = [nget EXCEPT ![p] = 0]
    /\ n429' = [n429 EXCEPT ![p] = 0]
    /\ UNCHANGED <<now, gate_vars, upstream, svc_vars, elapsed_time, wake,
                   response, depth, last_sent, attempt_end, entry, last429>>

\* lines 87-88: current_time = time.time(); elapsed_time = ...
Enter(p) ==
    /\ pc[p] = "enter"
    /\ elapsed_time' = [elapsed_time EXCEPT ![p] = now - last_request_time]
    /\ entry' = [entry EXCEPT ![p] =
                   [at |-> now, remaining |-> rate_limit_remaining,
                    reset |-> rate_limit_reset_time]]
    /\ pc' = [pc EXCEPT ![p] = "quota_check"]
    /\ UNCHANGED <<now, gate_vars, env_vars, wake, response, depth, result,
                   last_sent, attempt_end, nget, n429, last429>>

\* the quota test written as rate_limit_remaining < 0
QuotaCheck_Strict(p) ==
    /\ pc[p] = "quota_check"
    /\ IF rate_limit_remaining < 0
       THEN IF rate_limit_reset_time < 0
            THEN /\ GateRaise(p, "ValueError")
                 /\ UNCHANGED <<last_sent, attempt_end, nget, n429>>
            ELSE /\ wake' = [wake EXCEPT ![p] =
                               SleepUntil(now, rate_limit_reset_time)]
                 /\ pc' = [pc EXCEPT ![p] = "quota_sleep"]
                 /\ UNCHANGED <<elapsed_time, response, depth, result,
                                hist_vars>>
       ELSE /\ pc' = [pc EXCEPT ![p] = "space_check"]
            /\ UNCHANGED <<elapsed_time, wake, response, depth, result,
                           hist_vars>>
    /\ UNCHANGED <<now, gate_vars, env_vars>>

\* lines 90-92: if rate_limit_remaining <= 0: time.sleep(rate_limit_reset_time)
\* (time.sleep raises ValueError on a negative length)
QuotaCheck(p) ==
    /\ pc[p] = "quota_check"
    /\ IF rate_limit_remaining <= 0
       THEN IF rate_limit_reset_time < 0
            THEN /\ GateRaise(p, "ValueError")
                 /\ UNCHANGED <<last_sent, attempt_end, nget, n429>>
            ELSE /\ wake' = [wake EXCEPT ![p] =
                               SleepUntil(now, rate_limit_reset_time)]
                 /\ pc' = [pc EXCEPT ![p] = "quota_sleep"]
                 /\ UNCHANGED <<elapsed_time, response, depth, result,
                                hist_vars>>
       ELSE /\ pc' = [pc EXCEPT ![p] = "space_check"]
            /\ UNCHANGED <<elapsed_time, wake, response, depth, result,
                           hist_vars>>
    /\ UNCHANGED <<now, gate_vars, env_vars>>

\* lines 92-93: the sleep ends; rate_limit_remaining = 60
QuotaWake(p) ==
    /\ pc[p] = "quota_sleep"
    /\ now >= wake[p]
    /\ rate_limit_remaining' = DefaultLimit
    /\ pc' = [pc EXCEPT ![p] = "space_check"]
    /\ UNCHANGED <<now, last_request_time, rate_limit_reset_time, env_vars,
                   elapsed_time, wake, response, depth, result, hist_vars>>

\* lines 95-98: if elapsed_time < 1: time.sleep(1 - elapsed_time)
SpaceCheck(p) ==
    /\ pc[p] = "space_check"
    /\ IF elapsed_time[p] < TicksPerSec
       THEN /\ wake' = [wake EXCEPT ![p] =
                          now + (TicksPerSec - elapsed_time[p])]
            /\ pc' = [pc EXCEPT ![p] = "space_sleep"]
       ELSE /\ pc' = [pc EXCEPT ![p] = "get"]
            /\ UNCHANGED wake
    /\ UNCHANGED <<now, gate_vars, env_vars, elapsed_time, response, depth,
                   result, hist_vars>>

\* line 98: the spacing sleep ends
SpaceWake(p) ==
    /\ pc[p] = "space_sleep"
    /\ now >= wake[p]
    /\ pc' = [pc EXCEPT ![p] = "get"]
    /\ UNCHANGED <<now, gate_vars, env_vars, elapsed_time, wake, response,
                   depth, result, hist_vars>>

\* a send that counts the request against the quota itself
Send_Decrement(p) ==
    /\ pc[p] = "get"
    /\ pc' = [pc EXCEPT ![p] = "wait"]
    /\ last_sent' = [at |-> now, by |-> p]
    /\ nget' = [nget EXCEPT ![p] = @ + 1]
    /\ rate_limit_remaining' = rate_limit_remaining - 1
    /\ UNCHANGED <<now, last_request_time, rate_limit_reset_time, env_vars,
                   elapsed_time, wake, response, depth, result, attempt_end,
                   entry, n429, last429>>

\* line 100: requests.get(url, headers=headers) sends the GET
Send(p) ==
    /\ pc[p] = "get"
    /\ pc' = [pc EXCEPT ![p] = "wait"]
    /\ last_sent' = [at |-> now, by |-> p]
    /\ nget' = [nget EXCEPT ![p] = @ + 1]
    /\ UNCHANGED <<now, gate_vars, env_vars, elapsed_time, wake, response,
                   depth, result, attempt_end, entry, n429, last429>>

\* the bodies the upstream may send to thread p
BodiesFor(p) ==
    IF handler[p] = "reconcile" THEN SearchBodies
    ELSE IF handler[p] = "preview" THEN PreviewBodies
    ELSE {NoBody}

\* lines 100-101: requests.get returns a response;
\* last_request_time = time.time()
Receive(p) ==
    /\ pc[p] = "wait"
    /\ \E r \in upstream :
          /\ r.body \in BodiesFor(p)
          /\ r.status = 429 => depth[p] < MaxRetries
          /\ response' = [response EXCEPT ![p] = r]
          /\ IF r.status = 429
             THEN /\ n429' = [n429 EXCEPT ![p] = @ + 1]
                  /\ last429' = [last429 EXCEPT ![p] =
                                   [at |-> now, retry_after |-> r.retry_after]]
             ELSE UNCHANGED <<n429, last429>>
    /\ attempt_end' = now
    /\ last_request_time' = now
    /\ pc' = [pc EXCEPT ![p] = "status"]
    /\ UNCHANGED <<now, rate_limit_remaining, rate_limit_reset_time, env_vars,
                   elapsed_time, wake, depth, result, last_sent, entry, nget>>

\* line 100: requests.get raises (connection error, timeout, ...); the
\* exception propagates, line 101 is not reached
ReceiveFailure(p) ==
    /\ pc[p] = "wait"
    /\ attempt_end' = now
    /\ GateRaise(p, "RequestException")
    /\ UNCHANGED <<now, gate_vars, env_vars, last_sent, nget, n429>>

\* lines 103-104: status 200, rate_limit_remaining = int(headers.get(...))
Read200Remaining(p) ==
    /\ pc[p] = "status"
    /\ response[p].status = 200
    /\ LET v == HeaderInt(response[p].remaining)
       IN IF v.ok
          THEN /\ rate_limit_remaining' = v.val
               /\ pc' = [pc EXCEPT ![p] = "reset200"]
               /\ UNCHANGED <<elapsed_time, wake, response, depth, result,
                              hist_vars>>
          ELSE /\ GateRaise(p, "ValueError")
               /\ UNCHANGED <<rate_limit_remaining, last_sent, attempt_end,
                              nget, n429>>
    /\ UNCHANGED <<now, last_request_time, rate_limit_reset_time, env_vars>>

\* lines 105, 113: rate_limit_reset_time = int(headers.get(...)); return
Read200Reset(p) ==
    /\ pc[p] = "reset200"
    /\ LET v == HeaderInt(response[p].reset)
       IN IF v.ok
          THEN /\ rate_limit_reset_time' = v.val
               /\ GateReturn(p, response[p])
          ELSE /\ GateRaise(p, "ValueError")
               /\ UNCHANGED rate_limit_reset_time
    /\ UNCHANGED <<now, last_request_time, rate_limit_remaining, env_vars,
                   last_sent, attempt_end, nget, n429>>

\* a 429 handed back to the caller instead of being retried
Read429_NoRetry(p) ==
    /\ pc[p] = "status"
    /\ response[p].status = 429
    /\ GateReturn(p, response[p])
    /\ UNCHANGED <<now, gate_vars, env_vars, last_sent, attempt_end, nget,
                   n429>>

\* lines 107-108: status 429, rate_limit_reset_time = int(headers.get(...))
Read429(p) ==
    /\ pc[p] = "status"
    /\ response[p].status = 429
    /\ LET v == HeaderInt(response[p].retry_after)
       IN IF v.ok
          THEN /\ rate_limit_reset_time' = v.val
               /\ pc' = [pc EXCEPT ![p] = "backoff_call"]
               /\ UNCHANGED <<elapsed_time, wake, response, depth, result,
                              hist_vars>>
          ELSE /\ GateRaise(p, "ValueError")
               /\ UNCHANGED <<rate_limit_reset_time, last_sent, attempt_end,
                              nget, n429>>
    /\ UNCHANGED <<now, last_request_time, rate_limit_remaining, env_vars>>

\* line 110: time.sleep(rate_limit_reset_time)
BackoffSleep(p) ==
    /\ pc[p] = "backoff_call"
    /\ IF rate_limit_reset_time < 0
       THEN /\ GateRaise(p, "ValueError")
            /\ UNCHANGED <<last_sent, attempt_end, nget, n429>>
       ELSE /\ wake' = [wake EXCEPT ![p] =
                          SleepUntil(now, rate_limit_reset_time)]
            /\ pc' = [pc EXCEPT ![p] = "backoff"]
            /\ UNCHANGED <<elapsed_time, response, depth, result, hist_vars>>
    /\ UNCHANGED <<now, gate_vars, env_vars>>

\* line 111: the sleep ends; response = rate_limited_request(url, headers)
\* opens a new frame, whose locals are not yet bound
Retry(p) ==
    /\ pc[p] = "backoff"
    /\ now >= wake[p]
    /\ depth' = [depth EXCEPT ![p] = @ + 1]
    /\ response' = [response EXCEPT ![p] = NoResponse]
    /\ pc' = [pc EXCEPT ![p] = "enter"]
    /\ UNCHANGED <<now, gate_vars, env_vars, elapsed_time, wake, result,
                   hist_vars>>

\* a response of any other status handed back as a 200
ReturnOther_AsOk(p) ==
    /\ pc[p] = "status"
    /\ response[p].status \notin {200, 429}
    /\ GateReturn(p, [response[p] EXCEPT !.status = 200])
    /\ UNCHANGED <<now, gate_vars, env_vars, last_sent, attempt_end, nget,
                   n429>>

\* lines 103, 107, 113: any other status: return response
ReturnOther(p) ==
    /\ pc[p] = "status"
    /\ response[p].status \notin {200, 429}
    /\ GateReturn(p, response[p])
    /\ UNCHANGED <<now, gate_vars, env_vars, last_sent, attempt_end, nget,
                   n429>>

(***************************************************************************)
(* search, src/discogs.py:115-161.                                         *)
(***************************************************************************)
\* position p of the input where a stable descending sort puts x: after
\* every element whose score is at least x's
RECURSIVE InsertByScore(_, _)
InsertByScore(sorted, x) ==
    IF sorted = <<>> THEN <<x>>
    ELSE IF Head(sorted).score >= x.score
         THEN <<Head(sorted)>> \o InsertByScore(Tail(sorted), x)
         ELSE <<x>> \o sorted

RECURSIVE SortAscending(_)
SortAscending(l) ==
    IF l = <<>> THEN <<>>
    ELSE LET rest == SortAscending(SubSeq(l, 1, Len(l) - 1))
             x == l[Len(l)]
             RECURSIVE Ins(_)
             Ins(t) == IF t = <<>> THEN <<x>>
                       ELSE IF Head(t).score <= x.score
                            THEN <<Head(t)>> \o Ins(Tail(t))
                            ELSE <<x>> \o t
         IN Ins(rest)

Reversed(l) == [i \in 1..Len(l) |-> l[Len(l) + 1 - i]]

\* an ascending sort, reversed: candidates with equal scores change places
SortedByScore_Reversed(l) == Reversed(SortAscending(l))

\* line 159: sorted(out, key=itemgetter('score'), reverse=True)
RECURSIVE SortedByScore(_)
SortedByScore(l) ==
    IF l = <<>> THEN <<>>
    ELSE InsertByScore(SortedByScore(SubSeq(l, 1, Len(l) - 1)), l[Len(l)])

\* line 161: sorted_out[:3]
TopThree(l) == SubSeq(l, 1, IF Len(l) < 3 THEN Len(l) ELSE 3)

\* lines 140-155: the resource built from one item of the results
Resource(item, q, meta) ==
    LET entity_type == EntityType(meta)
        name == IF entity_type # "artist" THEN item.title ELSE item.name
    IN [id |-> MakeUri(entity_type, item.id),
        name |-> IF name # "" THEN name ELSE "Unknown",
        score |-> IF name # "" THEN item.ratio ELSE 0,
        match |-> name # "" /\ Lower(q) = Lower(name),
        type |-> <<[id |-> meta.id, name |-> meta.name]>>,
        catno |-> IF item.catno # "" THEN item.catno ELSE "N/A"]

\* the handler is over: its locals go out of scope
Respond(p, r) ==
    /\ http' = [http EXCEPT ![p] = r]
    /\ pc' = [pc EXCEPT ![p] = "idle"]
    /\ handler' = [handler EXCEPT ![p] = "none"]
    /\ mode' = [mode EXCEPT ![p] = "none"]
    /\ todo' = [todo EXCEPT ![p] = <<>>]
    /\ results' = [results EXCEPT ![p] = <<>>]
    /\ key' = [key EXCEPT ![p] = ""]
    /\ query' = [query EXCEPT ![p] = NoText]
    /\ query_type' = [query_type EXCEPT ![p] = NoType]
    /\ given_type' = [given_type EXCEPT ![p] = NoType]

\* lines 72-82: jsonpify
Jsonpify(p, kind, res) ==
    [status |-> 200, kind |-> kind, results |-> res,
     mimetype |-> IF request[p].callback THEN "text/javascript"
                  ELSE "application/json",
     error |-> ""]

\* an exception that no handler catches: the framework answers 500
ServerError(e) ==
    [status |-> 500, kind |-> "error", results |-> <<>>,
     mimetype |-> "text/html", error |-> e]

\* search is over and its caller, reconcile, goes on: line 179 for a
\* single query, lines 190 and 187 for a batch
SearchEnds(p, kind, list, e) ==
    /\ search_out' = [search_out EXCEPT ![p] =
                        [kind |-> kind, list |-> list, exc |-> e]]
    /\ UNCHANGED out
    /\ IF kind = "raised"
       THEN Respond(p, ServerError(e))
       ELSE IF mode[p] = "single"
       THEN Respond(p, Jsonpify(p, "single",
                                <<[key |-> "", result |-> list]>>))
       ELSE /\ results' = [results EXCEPT ![p] =
                             Append(@, [key |-> key[p], result |-> list])]
            /\ pc' = [pc EXCEPT ![p] = "batch_loop"]
            /\ UNCHANGED <<handler, mode, todo, key, query, query_type,
                           given_type, http>>

\* lines 119-131: search up to its call of rate_limited_request
Search(p) ==
    /\ pc[p] = "search"
    /\ out' = [out EXCEPT ![p] = <<>>]
    /\ search_out' = [search_out EXCEPT ![p] = NoSearch]
    /\ pc' = [pc EXCEPT ![p] = "enter"]
    /\ result' = [result EXCEPT ![p] = NoResult]
    /\ nget' = [nget EXCEPT ![p] = 0]
    /\ n429' = [n429 EXCEPT ![p] = 0]
    /\ UNCHANGED <<now, gate_vars, calls_left, upstream, handler, request,
                   mode, todo, results, key, query, query_type, given_type,
                   http, elapsed_time, wake, response, depth, last_sent,
                   attempt_end, entry, last429>>

\* lines 131-156: the call of rate_limited_request is over; resp.json() and
\* the loop over results.get('results', [])
SearchCollect(p) ==
    /\ pc[p] = "search_json"
    /\ handler[p] = "reconcile"
    /\ LET meta == QueryTypeMeta(query_type[p])
           body == result[p].body
       IN IF result[p].kind = "exception" \/ body.kind = "undecodable"
          THEN \* lines 134-136: except Exception: return out
               SearchEnds(p, "list", <<>>, "")
          ELSE IF body.kind = "array"
          THEN \* line 138: a list has no get
               SearchEnds(p, "raised", <<>>, "AttributeError")
          ELSE IF body.items # <<>> /\ body.items[1].shape = "scalar"
          THEN \* line 140: the first item has no get
               SearchEnds(p, "raised", <<>>, "AttributeError")
          ELSE IF body.items # <<>> /\ meta = NoMeta
          THEN \* line 153: query_type_meta is None
               SearchEnds(p, "raised", <<>>, "TypeError")
          ELSE IF \E i \in 1..Len(body.items) :
                     body.items[i].shape = "scalar"
          THEN \* line 140: a later item has no get
               SearchEnds(p, "raised", <<>>, "AttributeError")
          ELSE /\ out' = [out EXCEPT ![p] =
                             [i \in 1..Len(body.items) |->
                                Resource(body.items[i], query[p].text, meta)]]
               /\ pc' = [pc EXCEPT ![p] = "search_rank"]
               /\ UNCHANGED <<handler, mode, todo, results, key, query,
                              query_type, given_type, search_out, http>>
    /\ UNCHANGED <<now, gate_vars, calls_left, upstream, request,
                   elapsed_time, wake, response, depth, result, hist_vars>>

\* lines 158-161: sort by score, return the top three
SearchRank(p) ==
    /\ pc[p] = "search_rank"
    /\ SearchEnds(p, "list", TopThree(SortedByScore(out[p])), "")
    /\ UNCHANGED <<now, gate_vars, calls_left, upstream, request,
                   elapsed_time, wake, response, depth, result, hist_vars>>

(***************************************************************************)
(* reconcile, src/discogs.py:163-194.                                      *)
(***************************************************************************)
\* an inbound request to /reconcile: lines 167-185 and 192-194
Reconcile(p) ==
    /\ calls_left[p] # 0
    /\ pc[p] = "idle"
    /\ calls_left' = [calls_left EXCEPT ![p] = IF @ > 0 THEN @ - 1 ELSE @]
    /\ search_out' = [search_out EXCEPT ![p] = NoSearch]
    /\ \E req \in ReconcileRequests :
          /\ request' = [request EXCEPT ![p] = req]
          /\ LET q == IF req.form_query.present THEN req.form_query
                      ELSE req.args_query
                 \* query_type is bound on line 171 only
                 bound == ~req.form_query.present
                 qt == IF req.args_type = NoType THEN TypeId("artist")
                       ELSE req.args_type
                 fail(e) == 
                     /\ http' = [http EXCEPT ![p] = ServerError(e)]
                     /\ UNCHANGED <<pc, handler, mode, todo, query,
                                    query_type, given_type>>
             IN IF Truthy(q)
                THEN IF q.kind = "json_bad" THEN fail("JSONDecodeError")
                     ELSE IF q.kind = "json_other" THEN fail("KeyError")
                     ELSE IF ~bound THEN fail("UnboundLocalError")
                     ELSE /\ handler' = [handler EXCEPT ![p] = "reconcile"]
                          /\ mode' = [mode EXCEPT ![p] = "single"]
                          /\ query' = [query EXCEPT ![p] = Text(q.text)]
                          /\ query_type' = [query_type EXCEPT ![p] = qt]
                          /\ given_type' = [given_type EXCEPT ![p] =
                                              req.args_type]
                          /\ pc' = [pc EXCEPT ![p] = "search"]
                          /\ http' = [http EXCEPT ![p] = NoHttp]
                          /\ UNCHANGED todo
                ELSE IF Truthy(req.form_queries)
                THEN IF req.form_queries.kind = "json_bad"
                     THEN fail("JSONDecodeError")
                     ELSE IF req.form_queries.kind = "json_array"
                     THEN fail("AttributeError")
                     ELSE /\ handler' = [handler EXCEPT ![p] = "reconcile"]
                          /\ mode' = [mode EXCEPT ![p] = "batch"]
                          /\ todo' = [todo EXCEPT ![p] =
                                        req.form_queries.entries]
                          /\ pc' = [pc EXCEPT ![p] = "batch_loop"]
                          /\ http' = [http EXCEPT ![p] = NoHttp]
                          /\ UNCHANGED <<query, query_type, given_type>>
                ELSE /\ http' = [http EXCEPT ![p] =
                                   [status |-> 200, kind |-> "metadata",
                                    results |-> <<>>,
                                    mimetype |-> IF req.callback
                                                 THEN "text/javascript"
                                                 ELSE "application/json",
                                    error |-> ""]]
                     /\ UNCHANGED <<pc, handler, mode, todo, query,
                                    query_type, given_type>>
    /\ UNCHANGED <<now, gate_vars, upstream, results, key, out, elapsed_time,
                   wake, response, depth, result, hist_vars>>

\* lines 187-191: the loop over queries.items()
BatchLoop(p) ==
    /\ pc[p] = "batch_loop"
    /\ IF todo[p] = <<>>
       THEN Respond(p, Jsonpify(p, "batch", results[p]))
       ELSE LET e == Head(todo[p])
            IN IF e.shape # "object"
               THEN Respond(p, ServerError("AttributeError"))
               ELSE IF ~e.has_query
               THEN Respond(p, ServerError("KeyError"))
               ELSE /\ key' = [key EXCEPT ![p] = e.key]
                    /\ query' = [query EXCEPT ![p] = Text(e.query)]
                    /\ query_type' = [query_type EXCEPT ![p] =
                                        IF e.type = NoType
                                        THEN TypeId("artist") ELSE e.type]
                    /\ given_type' = [given_type EXCEPT ![p] = e.type]
                    /\ todo' = [todo EXCEPT ![p] = Tail(@)]
                    /\ pc' = [pc EXCEPT ![p] = "search"]
                    /\ UNCHANGED <<handler, mode, results, http>>
    /\ UNCHANGED <<now, gate_vars, calls_left, upstream, request, search_out,
                   out,
                   elapsed_time, wake, response, depth, result, hist_vars>>

(***************************************************************************)
(* preview, src/discogs.py:196-234.                                        *)
(***************************************************************************)
\* details.get(key) that yields None for a missing key
GetList_Null(v) == IF v = "missing" THEN "illshaped" ELSE v

\* details.get(key, []) of lines 210, 213, 223, 224
GetList(v) == IF v = "missing" THEN "empty" ELSE v

\* ', '.join([x['name'] for x in l]) of lines 211 and 213
JoinNames(l) ==
    IF l = "illshaped" THEN [exc |-> "TypeError", text |-> ""]
    ELSE IF l = "noname" THEN [exc |-> "KeyError", text |-> ""]
    ELSE IF l = "empty" THEN [exc |-> "", text |-> ""]
    ELSE [exc |-> "", text |-> "Name"]

\* ', '.join(l) of lines 223 and 224
JoinStrings(l) ==
    IF l = "illshaped" THEN [exc |-> "TypeError", text |-> ""]
    ELSE IF l = "empty" THEN [exc |-> "", text |-> ""]
    ELSE [exc |-> "", text |-> "Rock"]

\* line 212: label_info[0]['catno'] if label_info and 'catno' in
\* label_info[0] else 'N/A'
Catno(l) == IF l = "named_catno" THEN "CAT 1" ELSE "N/A"

\* line 229: make_response(preview_html, 200)
PreviewOk(html) ==
    [status |-> 200, kind |-> "html", results |-> <<html>>,
     mimetype |-> "text/html", error |-> ""]

\* lines 231-233: except Exception as e: make_response(f"Error ...", 500)
PreviewError(e) ==
    [status |-> 500, kind |-> "preview_error", results |-> <<>>,
     mimetype |-> "text/html", error |-> e]

\* lines 208-233: the response of preview to what rate_limited_request
\* handed to it
PreviewResponse(res) ==
    IF res.kind = "exception" THEN PreviewError(res.exc)
    ELSE IF res.body.kind = "undecodable" THEN PreviewError("JSONDecodeError")
    ELSE IF res.body.kind = "array" THEN PreviewError("AttributeError")
    ELSE LET details == res.body.items[1]
             label_info == GetList(details.labels)
             label_names == JoinNames(label_info)
             artist_names == JoinNames(GetList(details.artists))
             genres == JoinStrings(GetList(details.genres))
             styles == JoinStrings(GetList(details.styles))
         IN IF label_names.exc # "" THEN PreviewError(label_names.exc)
            ELSE IF artist_names.exc # "" THEN PreviewError(artist_names.exc)
            ELSE IF genres.exc # "" THEN PreviewError(genres.exc)
            ELSE IF styles.exc # "" THEN PreviewError(styles.exc)
            ELSE PreviewOk(
                   [title |-> IF details.title = "missing" THEN "No Title"
                              ELSE "Title",
                    artists |-> artist_names.text,
                    labels |-> label_names.text,
                    catno |-> Catno(label_info),
                    year |-> IF details.year = "missing" THEN "Unknown"
                             ELSE "1991",
                    genres |-> genres.text,
                    styles |-> styles.text])

\* an inbound request to /<entity_type>/<discogs_id>/preview, lines 201-207;
\* the two path parameters only go into the URL of the GET
Preview(p) ==
    /\ calls_left[p] # 0
    /\ pc[p] = "idle"
    /\ calls_left' = [calls_left EXCEPT ![p] = IF @ > 0 THEN @ - 1 ELSE @]
    /\ handler' = [handler EXCEPT ![p] = "preview"]
    /\ http' = [http EXCEPT ![p] = NoHttp]
    /\ pc' = [pc EXCEPT ![p] = "enter"]
    /\ result' = [result EXCEPT ![p] = NoResult]
    /\ nget' = [nget EXCEPT ![p] = 0]
    /\ n429' = [n429 EXCEPT ![p] = 0]
    /\ UNCHANGED <<now, gate_vars, upstream, request, mode, todo, results,
                   key, query, query_type, given_type, out, search_out,
                   elapsed_time, wake, response, depth, last_sent,
                   attempt_end, entry, last429>>

\* lines 207-233: the call of rate_limited_request is over; the rest of the
\* try block, or its except clause
PreviewRender(p) ==
    /\ pc[p] = "preview_json"
    /\ handler[p] = "preview"
    /\ Respond(p, PreviewResponse(result[p]))
    /\ UNCHANGED <<now, gate_vars, calls_left, upstream, request, out,
                   search_out, elapsed_time, wake, response, depth, result,
                   hist_vars>>

Service(p) ==
    \/ Reconcile(p) \/ BatchLoop(p) \/ Search(p) \/ SearchCollect(p)
    \/ SearchRank(p)

Gate(p) ==
    \/ Enter(p) \/ QuotaCheck(p) \/ QuotaWake(p) \/ SpaceCheck(p)
    \/ SpaceWake(p) \/ Send(p) \/ Receive(p) \/ ReceiveFailure(p)
    \/ Read200Remaining(p) \/ Read200Reset(p) \/ Read429(p)
    \/ BackoffSleep(p) \/ Retry(p) \/ ReturnOther(p)

\* the answers of the upstream when the threads run concurrently: a 200
\* with and without rate headers, a 429 with and without Retry-After, a 404
ConcAnswers ==
    {r \in ResponsesWith({NoBody}) :
        /\ r.status = 200 =>
              \/ r.remaining = Absent /\ r.reset = Absent
              \/ r.remaining = Header(<<"0">>) /\ r.reset = Header(<<"1">>)
        /\ r.status = 429 => r.retry_after \in {Absent, Header(<<"1">>)}
        /\ r.status # 500}

\* one thread, any number of calls, one after another
Init ==
    InitWith([p \in Threads |-> IF p = 1 THEN 0 - 1 ELSE 0],
             ResponsesWith({NoBody}))

\* every thread serves inbound requests
InitConc == InitWith([p \in Threads |-> MaxConcCalls], ConcAnswers)

Next == Tick \/ \E p \in Threads : Call(p) \/ Gate(p)

\* the answers of the upstream to the handlers: a 200 carries no rate headers
\* or, with an empty "results" array, an exhausted quota that resets at once;
\* a 429 asks for no delay
ServiceAnswers ==
    {r \in ResponsesWith(SearchBodies) :
        /\ \/ r.remaining = Absent /\ r.reset = Absent
           \/ /\ r.remaining = Header(<<"0">>) /\ r.reset = Header(<<"0">>)
              /\ r.body = [kind |-> "results", items |-> <<>>]
        /\ r.status = 429 =>
              r.retry_after = Header(<<"0">>) /\ r.body.kind = "undecodable"
        /\ r.status \notin {200, 429} =>
              r.status = 404 /\ r.body.kind \in {"undecodable", "object"}}

\* the answers of the upstream to preview: as to the other handler, the
\* exhausted quota coming with a detail record that lacks every member
PreviewAnswers ==
    {r \in ResponsesWith(PreviewBodies) :
        /\ \/ r.remaining = Absent /\ r.reset = Absent
           \/ /\ r.remaining = Header(<<"0">>) /\ r.reset = Header(<<"0">>)
              /\ r.body.kind = "detail"
              /\ \A k \in DOMAIN r.body.items[1] :
                    r.body.items[1][k] = "missing"
        /\ r.status = 429 =>
              r.retry_after = Header(<<"0">>) /\ r.body.kind = "undecodable"
        /\ r.status \notin {200, 429} =>
              r.status = 404 /\ r.body.kind \in {"undecodable", "detail"}}

\* one thread serving previews, one after another
InitPreview ==
    InitWith([p \in Threads |-> IF p = 1 THEN MaxPreviews ELSE 0],
             PreviewAnswers)

NextPreview ==
    Tick \/ \E p \in Threads : Preview(p) \/ PreviewRender(p) \/ Gate(p)

\* one thread serving inbound requests, one after another
InitService ==
    InitWith([p \in Threads |-> IF p = 1 THEN MaxRequests ELSE 0],
             ServiceAnswers)

NextService == Tick \/ \E p \in Threads : Service(p) \/ Gate(p)

\* search holds the 200 answer to the single query "Nirvana" of type
\* /discogs/artist (the default), a JSON object with a "results" array
InitRank ==
    /\ now = TicksPerSec
    /\ last_request_time = TicksPerSec
    /\ rate_limit_remaining = DefaultLimit
    /\ rate_limit_reset_time = DefaultLimit
    /\ calls_left = [p \in Threads |-> 0]
    /\ upstream = {}
    /\ pc = [p \in Threads |-> IF p = 1 THEN "search_json" ELSE "idle"]
    /\ elapsed_time = [p \in Threads |-> 0]
    /\ wake = [p \in Threads |-> 0]
    /\ response = [p \in Threads |-> NoResponse]
    /\ depth = [p \in Threads |-> 0]
    /\ \E b \in RankBodies :
          result = [p \in Threads |->
                      IF p = 1
                      THEN [kind |-> "response", status |-> 200, exc |-> "",
                            body |-> b]
                      ELSE NoResult]
    /\ handler = [p \in Threads |-> IF p = 1 THEN "reconcile" ELSE "none"]
    /\ request = [p \in Threads |->
                    IF p = 1
                    THEN [NoRequest EXCEPT !.args_query =
                            [present |-> TRUE, kind |-> "str",
                             text |-> "Nirvana"]]
                    ELSE NoRequest]
    /\ mode = [p \in Threads |-> IF p = 1 THEN "single" ELSE "none"]
    /\ todo = [p \in Threads |-> <<>>]
    /\ results = [p \in Threads |-> <<>>]
    /\ key = [p \in Threads |-> ""]
    /\ query = [p \in Threads |-> IF p = 1 THEN Text("Nirvana") ELSE NoText]
    /\ query_type = [p \in Threads |->
                       IF p = 1 THEN TypeId("artist") ELSE NoType]
    /\ given_type = [p \in Threads |-> NoType]
    /\ out = [p \in Threads |-> <<>>]
    /\ search_out = [p \in Threads |-> NoSearch]
    /\ http = [p \in Threads |-> NoHttp]
    /\ last_sent = [at |-> TicksPerSec, by |-> 1]
    /\ attempt_end = TicksPerSec
    /\ entry = [p \in Threads |-> NoEntry]
    /\ nget = [p \in Threads |-> IF p = 1 THEN 1 ELSE 0]
    /\ n429 = [p \in Threads |-> 0]
    /\ last429 = [p \in Threads |-> No429]

NextRank == \E p \in Threads : SearchCollect(p) \/ SearchRank(p)

\* one caller, its calls issued one after another
Spec == Init /\ [][Next]_vars

\* the tail of search on every "results" array
SpecRank == InitRank /\ [][NextRank]_vars

\* the request handlers on top of the gate
SpecService == InitService /\ [][NextService]_vars

\* the preview handler on top of the gate
SpecPreview == InitPreview /\ [][NextPreview]_vars

\* concurrent inbound requests
SpecConc == InitConc /\ [][Next]_vars


(***************************************************************************)
(* Properties of the rate gate.                                            *)
(***************************************************************************)
GatePcs == {"enter", "quota_check", "quota_sleep", "space_check",
            "space_sleep", "get"}

\* C1: calls issued one after another by a single caller: any two
\* consecutive outbound GETs are sent at least 1 second apart, whatever the
\* outcome of the earlier GET.
C1_MinSpacing ==
    [][\A p \in Threads :
          (Send(p) /\ last_sent.at >= 0) => now - last_sent.at >= TicksPerSec]_vars

\* C2: under concurrent callers no two callers send their outbound GET
\* within the same 1-second window.
C2_NoTwoCallersInOneWindow ==
    [][\A p \in Threads :
          (Send(p) /\ last_sent.at >= 0 /\ last_sent.by # p)
              => now - last_sent.at >= TicksPerSec]_vars

\* the seconds a Retry-After header asks for, 60 when it is absent
RetryAfterSeconds(h) == IF h.present THEN PyIntVal(h.text) ELSE DefaultLimit

C5_No429Returned ==
    \A p \in Threads :
        result[p].kind = "response" => result[p].status # 429

\* C5 witness: a call that received a 429 has returned a response
C5_Witness ==
    \E p \in Threads :
        /\ result[p].kind = "response"
        /\ n429[p] > 0

\* C10: after every GET attempt has returned, with a response or with a
\* network failure, last_request_time is the time at which it returned.
C10_EveryAttemptRecorded ==
    attempt_end >= 0 => last_request_time >= attempt_end

\* the value the spec gives a rate header: its integer, 60 when the header
\* is absent or is not an integer
HeaderOrDefault(h) ==
    LET v == HeaderInt(h) IN IF v.ok THEN v.val ELSE DefaultLimit

\* what the caller holds when the gate returned response r to it
Returned(r) ==
    [kind |-> "response", status |-> r.status, exc |-> "", body |-> r.body]

\* C11: on a 200 the gate sets rate_limit_remaining and
\* rate_limit_reset_time from the two rate headers, each to 60 when its
\* header is absent or is not an integer, and returns the 200 to the caller.
C11_Status200ReadsHeaders ==
    [][\A p \in Threads :
          /\ (pc[p] = "status" /\ response[p].status = 200
                 /\ pc'[p] # "status") =>
                /\ rate_limit_remaining' = HeaderOrDefault(response[p].remaining)
                /\ pc'[p] = "reset200"
          /\ (pc[p] = "reset200" /\ pc'[p] # "reset200") =>
                /\ rate_limit_reset_time' = HeaderOrDefault(response[p].reset)
                /\ result'[p] = Returned(response[p])]_vars

\* C12: an outcome that is neither a 200 nor a 429 (another status, or a
\* network failure) ends the call: the GET that produced it is not repeated
\* and the caller gets that response, or that exception, as it is.
C12_OtherOutcomeHandedOver ==
    [][\A p \in Threads :
          /\ (pc[p] = "status" /\ response[p].status \notin {200, 429}
                 /\ pc'[p] # "status") =>
                /\ result'[p] = Returned(response[p])
                /\ pc'[p] = ReturnPc(p)
                /\ nget'[p] = nget[p]
                /\ nget[p] = n429[p] + 1
          /\ (pc[p] = "wait" /\ pc'[p] \notin {"wait", "status"}) =>
                /\ result'[p].kind = "exception"
                /\ result'[p].exc = "RequestException"
                /\ pc'[p] = ReturnPc(p)
                /\ nget'[p] = nget[p]
                /\ nget[p] = n429[p] + 1]_vars

\* C12 witness: a call that was answered a 429 and then a 404 has returned
\* the 404 after two GETs
C12_Witness ==
    \E p \in Threads :
        /\ result[p].kind = "response"
        /\ result[p].status = 404
        /\ n429[p] = 1
        /\ nget[p] = 2

\* C13: in every reachable state rate_limit_remaining >= 0 and
\* rate_limit_reset_time >= 0, whatever header values the upstream sends.
C13_RateStateNonNegative ==
    /\ rate_limit_remaining >= 0
    /\ rate_limit_reset_time >= 0

\* C14: the gate never gives up after a 429: a call that was answered a 429
\* ends only by returning the non-429 response the upstream gives it (or
\* because the upstream gave no answer at all).
C14_NeverGivesUpAfter429 ==
    \A p \in Threads :
        (n429[p] > 0 /\ result[p].kind = "exception") =>
            result[p].exc = "RequestException"

\* C18: while a caller sleeps out the backoff a 429 asked for, no other
\* caller of the gate sends a GET.
C18_BackoffHoldsAllCallers ==
    [][\A p, q \in Threads :
          (p # q /\ pc[p] = "backoff" /\ now < wake[p]) => ~Send(q)]_vars

\* C19: the elapsed time is measured after the quota sleep: a call that
\* found rate_limit_remaining <= 0 and slept rate_limit_reset_time >= 1
\* seconds makes no spacing sleep on top of it.
C19_NoSpacingSleepAfterQuotaSleep ==
    \A p \in Threads :
        (entry[p].at >= 0 /\ entry[p].remaining <= 0 /\ entry[p].reset >= 1)
            => pc[p] # "space_sleep"

\* C20: rate_limit_remaining changes only by the reset to 60 that ends a
\* quota sleep and by a 200; rate_limit_reset_time changes only by a 200 or
\* a 429. A 429 leaves rate_limit_remaining as it is, another status leaves
\* both, and sending a GET does not decrement rate_limit_remaining.
C20_RateStateFrame ==
    [][/\ rate_limit_remaining' # rate_limit_remaining =>
             \E p \in Threads :
                \/ /\ pc[p] = "quota_sleep" /\ pc'[p] = "space_check"
                   /\ rate_limit_remaining' = DefaultLimit
                \/ pc[p] = "status" /\ response[p].status = 200
       /\ rate_limit_reset_time' # rate_limit_reset_time =>
             \E p \in Threads :
                \/ pc[p] = "reset200" /\ response[p].status = 200
                \/ pc[p] = "status" /\ response[p].status = 429
       /\ \A p \in Threads :
             /\ (pc[p] = "status" /\ response[p].status = 429
                    /\ pc'[p] # "status") =>
                   rate_limit_remaining' = rate_limit_remaining
             /\ (pc[p] = "status" /\ response[p].status \notin {200, 429}
                    /\ pc'[p] # "status") =>
                   /\ rate_limit_remaining' = rate_limit_remaining
                   /\ rate_limit_reset_time' = rate_limit_reset_time
             /\ (pc[p] = "get" /\ pc'[p] = "wait") =>
                   rate_limit_remaining' = rate_limit_remaining]_vars

\* C20 witness: a 429 with Retry-After: 1 was read while
\* rate_limit_remaining, set to 1 by an earlier 200, stayed 1
C20_Witness ==
    \E p \in Threads :
        /\ pc[p] = "backoff_call"
        /\ last429[p].retry_after = Header(<<"1">>)
        /\ rate_limit_reset_time = 1
        /\ rate_limit_remaining = 1


(***************************************************************************)
(* Properties of search and reconcile.                                     *)
(***************************************************************************)
\* C6: search never raises: whatever the query, the entity type and the
\* upstream outcome, it returns a list.
C6_SearchNeverRaises ==
    \A p \in Threads : search_out[p].kind # "raised"

\* the type is one of the enabled EntityTypeDescriptors
Enabled(t) == \E i \in 1..Len(DefaultTypes) : DefaultTypes[i].id = t

\* C7: for an entry of a batch whose type is missing or is not an enabled
\* type the Reconciliation Endpoint does not invoke search, and the result
\* list of that entry is empty.
C7_NoSearchForUnsupportedType ==
    \A p \in Threads :
        /\ (pc[p] = "search" /\ mode[p] = "batch") => Enabled(given_type[p])
        /\ http[p].kind = "batch" =>
              \A i \in 1..Len(http[p].results) :
                 ~Enabled(request[p].form_queries.entries[i].type) =>
                    http[p].results[i].result = <<>>

Keys(l) == [i \in 1..Len(l) |-> l[i].key]

\* the request carries a batch whose entries all are objects with a query
WellFormedBatch(req) ==
    /\ ~Truthy(req.form_query)
    /\ ~Truthy(req.args_query)
    /\ req.form_queries.kind = "json_object"
    /\ \A i \in 1..Len(req.form_queries.entries) :
          /\ req.form_queries.entries[i].shape = "object"
          /\ req.form_queries.entries[i].has_query

\* C8: the response to a batch is a mapping whose key set is the key set of
\* the batch; an entry with an unrecognized type or a failing upstream call
\* does not make the batch fail.
C8_BatchKeysPreserved ==
    \A p \in Threads :
        (http[p].kind # "none" /\ WellFormedBatch(request[p])) =>
            /\ http[p].status = 200
            /\ http[p].kind = "batch"
            /\ Keys(http[p].results) = Keys(request[p].form_queries.entries)

\* the parameter query of the request, taken from the form or else from the
\* query string
QueryOf(req) ==
    IF req.form_query.present THEN req.form_query ELSE req.args_query

\* the request is a single query: a bare string, or a JSON object with a
\* "query" member
SingleQuery(req) == QueryOf(req).kind \in {"str", "json_query"}

\* C15: a single query is accepted as form parameter and as query-string
\* parameter: without a type, search is invoked with the query text and
\* /discogs/artist, and the response is {"result": [...]} (unless search
\* itself raises, C6).
C15_SingleQueryFormOrArgs ==
    \A p \in Threads :
        (SingleQuery(request[p]) /\ request[p].args_type = NoType) =>
            /\ http[p].kind = "none" =>
                  /\ handler[p] = "reconcile"
                  /\ mode[p] = "single"
                  /\ query[p] = Text(QueryOf(request[p]).text)
                  /\ query_type[p] = TypeId("artist")
            /\ http[p].kind # "none" =>
                  \/ http[p].kind = "single" /\ http[p].status = 200
                  \/ search_out[p].kind = "raised"

\* b is a batch whose entries all are objects with a query
BatchParam(b) ==
    /\ b.kind = "json_object"
    /\ \A i \in 1..Len(b.entries) :
          b.entries[i].shape = "object" /\ b.entries[i].has_query

\* C16: a request with a batch in the parameter queries, in the form or in
\* the query string, is answered with the batch mapping (unless search
\* raises, C6); the service metadata is the answer only to a request
\* with neither a batch nor a single query.
C16_BatchFormOrArgs ==
    \A p \in Threads :
        /\ (http[p].kind # "none"
              /\ ~Truthy(request[p].form_query)
              /\ ~Truthy(request[p].args_query)
              /\ \/ BatchParam(request[p].form_queries)
                 \/ BatchParam(request[p].args_queries)) =>
              \/ http[p].kind = "batch" /\ http[p].status = 200
              \/ search_out[p].kind = "raised"
        /\ http[p].kind = "metadata" =>
              /\ ~Truthy(request[p].form_query)
              /\ ~Truthy(request[p].args_query)
              /\ ~BatchParam(request[p].form_queries)
              /\ ~BatchParam(request[p].args_queries)

\* every member of the detail record d is missing or well-shaped
LacksOnly(d) ==
    /\ d.labels \in {"missing", "empty", "named", "named_catno"}
    /\ d.artists \in {"missing", "named"}
    /\ d.genres \in {"missing", "list"}
    /\ d.styles \in {"missing", "list"}

\* C17: the outcome of preview is HTTP 200 with the rendered HTML or HTTP
\* 500 with an error message, whatever the upstream outcome; a detail
\* record that only lacks members yields 200, with the placeholder or the
\* empty join in the place of each missing member.
C17_PreviewNeverRaises ==
    \A p \in Threads :
        /\ http[p].kind # "none" =>
              \/ http[p].status = 200 /\ http[p].kind = "html"
              \/ /\ http[p].status = 500
                 /\ http[p].kind = "preview_error"
                 /\ http[p].error # ""
        /\ (http[p].kind # "none" /\ result[p].kind = "response"
              /\ result[p].body.kind = "detail"
              /\ LacksOnly(result[p].body.items[1])) =>
              /\ http[p].status = 200
              /\ LET d == result[p].body.items[1]
                     html == http[p].results[1]
                 IN /\ d.title = "missing" => html.title = "No Title"
                    /\ d.year = "missing" => html.year = "Unknown"
                    /\ d.genres = "missing" => html.genres = ""
                    /\ d.styles = "missing" => html.styles = ""
                    /\ d.artists = "missing" => html.artists = ""
                    /\ d.labels = "missing" =>
                          html.labels = "" /\ html.catno = "N/A"

\* C17 witness: a detail record that lacks only genres was rendered with an
\* empty string for the genres
C17_Witness ==
    \E p \in Threads :
        /\ http[p].status = 200
        /\ result[p].kind = "response"
        /\ result[p].body.kind = "detail"
        /\ result[p].body.items[1] = [CompleteDetail EXCEPT !.genres = "missing"]
        /\ http[p].results[1].genres = ""
        /\ http[p].results[1].styles = "Rock"

Range(l) == {l[i] : i \in 1..Len(l)}

\* l holds the (at most 3) best candidates of o by descending score, those
\* with equal scores in their order of arrival
IsTopThree(o, l) ==
    LET Pos(x) == CHOOSE k \in 1..Len(o) : o[k] = x
    IN /\ Len(l) = IF Len(o) < 3 THEN Len(o) ELSE 3
       /\ \A i \in 1..Len(l) : l[i] \in Range(o)
       /\ \A i, j \in 1..Len(l) :
             i < j => \/ l[i].score > l[j].score
                      \/ l[i].score = l[j].score /\ Pos(l[i]) < Pos(l[j])
       /\ \A k \in 1..Len(o) :
             o[k] \notin Range(l) =>
                \A i \in 1..Len(l) :
                   \/ l[i].score > o[k].score
                   \/ l[i].score = o[k].score /\ Pos(l[i]) < k

\* C9: the list search returns has at most 3 entries, is ordered by
\* descending score, holds the highest-scoring candidates and keeps
\* candidates with equal scores in their upstream arrival order.
C9_TopThreeStable ==
    \A p \in Threads :
        search_out[p].kind = "list" =>
            /\ Len(search_out[p].list) <= 3
            /\ IsTopThree(out[p], search_out[p].list)

\* C9 witness: the candidates scored 40, 95, 95, 10, 70 came back as the
\* second, the third and the fifth
C9_Witness ==
    \E p \in Threads :
        /\ search_out[p].kind = "list"
        /\ [i \in 1..Len(out[p]) |-> out[p][i].score] = <<40, 95, 95, 10, 70>>
        /\ search_out[p].list = <<out[p][2], out[p][3], out[p][5]>>

====
